---- MODULE Spec2Model ----
(***************************************************************************)
(* A model of streamz/cmdio: the CmdIo lifecycle controller of cmdio.go    *)
(* (Start / Run / Terminate / Info / Join and the wait task runFn), the    *)
(* launched OS process, and the callers' goroutines. Run is Start followed *)
(* by a receive from the result channel in the same goroutine.             *)
(***************************************************************************)
EXTENDS Integers, Sequences, FiniteSets, TLC

\* ------------------------------------------------------------------ bounds
\* Number of caller goroutines sharing one CmdIo.
NumCallers == 2
\* The clock runs from 0 (the controlling process's start) to MaxClock.
MaxClock == 1

Callers == 1..NumCallers

\* The caller whose Start performs the launch.
Launcher == NumCallers

\* ---------------------------------------------------------- program constants
\* syscall.SIGTERM, the signal Terminate sends to the process group.
SIGTERM == 15
\* syscall.SIGKILL, a signal the process may die from without Terminate.
SIGKILL == 9
\* Capacity of the result channel ech and of the launch-accepted channel sch.
EchCap == 1
SchCap == 1

\* status (cmdio.go const block)
_uninitialized == "uninitialized"
_exited == "exited"
_running == "running"
_signaled == "signaled"

\* --------------------------------------------------------------------- time
\* Instants are integers counted from the controlling process's start. The zero
\* time.Time lies further in the past than any Duration can express, and
\* Time.Sub saturates at the largest Duration.
MaxDuration == MaxClock
ZeroTime == 0 - (MaxDuration + 1)
Epoch == MaxClock + 1

Sub(t, u) == IF t - u > MaxDuration THEN MaxDuration ELSE t - u

UnixNano(t) == Epoch + t

\* ------------------------------------------------------------------- errors
\* An error value: nil, the reuse error of Start, an *exec.ExitError carrying a
\* wait status, or an error of any other class (cmd.Start failing).
NoWs == [signaled |-> FALSE, sig |-> 0, status |-> 0]

NilErr == [kind |-> "nil", ws |-> NoWs]

ErrReuse == [kind |-> "already executed, can not reuse CmdIo", ws |-> NoWs]

StartErr == [kind |-> "start", ws |-> NoWs]

ExitError(w) == [kind |-> "ExitError", ws |-> w]

\* syscall.WaitStatus accessors
WsSignal(w) == IF w.signaled THEN w.sig ELSE 0 - 1

WsExitStatus(w) == IF w.signaled THEN 0 - 1 ELSE w.status

\* The statuses a process that exits on its own may report.
ExitStatuses == {0, 1}

\* The pids the OS may give the launched process.
Pids == {2}

\* ------------------------------------------------- the process table (darwin)
\* The number of Controllers of the controlling process.
NumControllers == 2

Controllers == 1..NumControllers

\* The largest number of records in the process table.
MaxProcs == 3

\* The size in bytes of one record of the process table.
kinfoStructSize == 648

\* os.Getpid(): the pid of the controlling process.
Self == 1

\* The pids of the other processes, and the parents they may have.
TablePids == (Self + 1)..(Self + MaxProcs)

ParentIds == {Self, Self + 1}

\* The values of a kinfoProc record (only Pid and PPid are read).
kinfoProc == {r \in [Pid : TablePids, PPid : ParentIds] : r.Pid # r.PPid}

\* The process tables: a whole number of records, one per process.
Tables ==
    UNION {{t \in [1..n -> kinfoProc] :
               \A a, b \in 1..n : a # b => t[a].Pid # t[b].Pid} : n \in 1..MaxProcs}

VARIABLES
    sta,        \* c.sta
    inf,        \* c.inf
    str,        \* c.str
    ini,        \* c.ini: TRUE once the sync.Once has run
    ech,        \* c.ech: chan Info, capacity 1
    sch,        \* c.sch: chan bool, capacity 1
    syn,        \* c.syn: number of times the channel was closed
    tpc,        \* position of the wait task (runFn)
    tnow,       \* runFn's local now
    terr,       \* runFn's local e
    tinf,       \* the value of c.Info() in runFn's deferred send
    cmdPid,     \* cmd.Process.Pid
    proc,       \* the OS process: none, alive, exited (not yet waited for), reaped
    ws,         \* the wait status of the OS process
    sigPending, \* a SIGTERM was sent to the process group and not yet acted on
    clock,      \* time.Now()
    pc,         \* position of each caller goroutine
    res,        \* the last Info the launching caller received from the result channel
    handlers,   \* number of signalHandler goroutines spawned
    termAt,     \* for each Terminate call: c.sta and whether true was sent on sch
    lastTerm,   \* the last Terminate call: whether it sent the signal, its return value
    kills,      \* the targets of the kill(2) calls Terminate made
    log,        \* what the wait task has done, in order
    cini,       \* for each Controller: its c.ini has run
    hpc,        \* for each Controller: position of the signalHandler it spawned
    table,      \* the OS-wide process table
    enum,       \* for each signalHandler: ch, e of killChildren
    sigkills,   \* for each signalHandler: the <<pid, signal>> kill(2) calls it made
    cret        \* the last call of children: its argument and what it returned

vars == <<sta, inf, str, ini, ech, sch, syn, tpc, tnow, terr, tinf, cmdPid,
          proc, ws, sigPending, clock, pc, res, handlers, termAt,
          lastTerm, kills, log, cini, hpc, table, enum, sigkills, cret>>

ctl == <<sta, inf, str>>
task == <<tpc, tnow, terr, tinf, cmdPid>>
os == <<proc, ws, sigPending>>
ghost == <<handlers, termAt, lastTerm, kills, log>>
cmdio == <<sta, inf, str, ini, ech, sch, syn, tpc, tnow, terr, tinf, cmdPid,
           proc, ws, sigPending, clock, pc, res, termAt, lastTerm, kills, log>>
reaper == <<cini, hpc, table, enum, sigkills, cret>>

\* -------------------------------------------------------------------- Info
NewInfo == [Error |-> NilErr, RunT |-> 0, Pid |-> 0, Exit |-> 0 - 1,
            StartT |-> 0, EndT |-> 0, Finished |-> FALSE, Signaled |-> FALSE]

\* The record a rejected Start sends.
ReuseInfo == [Error |-> ErrReuse, RunT |-> 0, Pid |-> 0, Exit |-> 0,
              StartT |-> 0, EndT |-> 0, Finished |-> TRUE, Signaled |-> FALSE]

\* No Info received yet.
NoInfo == [Error |-> [kind |-> "none", ws |-> NoWs], RunT |-> 0, Pid |-> 0,
           Exit |-> 0 - 1, StartT |-> 0, EndT |-> 0, Finished |-> FALSE,
           Signaled |-> FALSE]

\* No Terminate call yet.
NoTerm == [sent |-> FALSE, ret |-> "none"]

New ==
    /\ sta = _uninitialized
    /\ inf = NewInfo
    /\ str = ZeroTime
    /\ ini = FALSE
    /\ ech = <<>>
    /\ sch = <<>>
    /\ syn = 0
    /\ tpc = "idle"
    /\ tnow = 0
    /\ terr = NilErr
    /\ tinf = NoInfo
    /\ cmdPid = 0
    /\ proc = "none"
    /\ ws = NoWs
    /\ sigPending = FALSE
    /\ clock = 0
    /\ pc = [c \in Callers |-> "idle"]
    /\ res = NoInfo
    /\ handlers = 0
    /\ termAt = {}
    /\ lastTerm = NoTerm
    /\ kills = {}
    /\ log = <<>>

\* No children call yet.
NoRet == [ppid |-> 0, pids |-> <<>>, err |-> "none"]

\* No Controller started, no signalHandler spawned.
NoReaper ==
    /\ cini = [k \in Controllers |-> FALSE]
    /\ hpc = [k \in Controllers |-> "none"]
    /\ enum = [k \in Controllers |-> NoRet]
    /\ sigkills = [k \in Controllers |-> {}]
    /\ cret = NoRet

\* One Controller and its callers; the process table is not consulted.
Init == New /\ NoReaper /\ table = <<>>

\* ------------------------------------------------------------------- clock
Tick ==
    /\ clock < MaxClock
    /\ clock' = clock + 1
    /\ UNCHANGED <<ctl, ini, ech, sch, syn, task, os, pc, res, ghost>>
    /\ UNCHANGED reaper

\* ------------------------------------------------------- controller (cmdio.go)
\* exitErr without the ws.Signal() branch: a signal death decodes as the exit
\* status.
exitErr_StatusOnly(err) ==
    IF err.kind = "ExitError" THEN WsExitStatus(err.ws) ELSE 0

\* exitErr testing the exit status before the signal: a signal death decodes
\* as ExitStatus() = -1.
exitErr_StatusFirst(err) ==
    IF err.kind = "ExitError"
    THEN IF WsExitStatus(err.ws) # 0
         THEN WsExitStatus(err.ws)
         ELSE WsSignal(err.ws)
    ELSE 0

\* exitErr: the exit code decoded from a non-nil start/wait error.
exitErr(err) ==
    IF err.kind = "ExitError"
    THEN IF WsSignal(err.ws) > 0 THEN WsSignal(err.ws) ELSE WsExitStatus(err.ws)
    ELSE 0

\* init without the assignment of c.inf.Pid.
init_NoPid(i, t, pid) ==
    [sta |-> _running, inf |-> [i EXCEPT !.StartT = UnixNano(t)]]

\* CmdIo.init under the lock: the new values of c.sta and c.inf.
init(i, t, pid) ==
    [sta |-> _running,
     inf |-> [i EXCEPT !.Pid = pid, !.StartT = UnixNano(t)]]

\* endState without the c.sta != _signaled test.
endState_IgnoresSignaled(s, i, t, code, err, nowv) ==
    [sta |-> _exited,
     inf |-> [i EXCEPT !.Error = err, !.Exit = code, !.StartT = UnixNano(t),
                       !.EndT = UnixNano(nowv), !.Finished = TRUE]]

\* endState without the assignment of c.inf.EndT.
endState_NoEndT(s, i, t, code, err, nowv) ==
    LET j == [i EXCEPT !.Error = err, !.Exit = code, !.StartT = UnixNano(t)]
    IN  IF s # _signaled
        THEN [sta |-> _exited, inf |-> [j EXCEPT !.Finished = TRUE]]
        ELSE [sta |-> s, inf |-> j]

\* CmdIo.endState under the lock: the new values of c.sta and c.inf.
endState(s, i, t, code, err, nowv) ==
    LET j == [i EXCEPT !.Error = err, !.Exit = code,
                       !.StartT = UnixNano(t), !.EndT = UnixNano(nowv)]
    IN  IF s # _signaled
        THEN [sta |-> _exited, inf |-> [j EXCEPT !.Finished = TRUE]]
        ELSE [sta |-> s, inf |-> j]

\* complete with code left at Info's initial -1 when there is no error.
complete_CodeUnset(s, i, t, err, nowv) ==
    LET code == IF err # NilErr THEN exitErr(err) ELSE 0 - 1
    IN  endState(s, i, t, code, err, nowv)

\* CmdIo.complete: decode the error, then endState.
complete(s, i, t, err, nowv) ==
    LET code == IF err # NilErr THEN exitErr(err) ELSE 0
    IN  endState(s, i, t, code, err, nowv)

\* Info with the subtraction the wrong way round: c.str.Sub(time.Now()).
InfoValue_Reversed(s, i, nowv, st) ==
    CASE s = _running -> [i EXCEPT !.RunT = Sub(st, nowv)]
      [] s = _exited -> [i EXCEPT !.Finished = TRUE]
      [] OTHER -> i

\* CmdIo.Info under the lock: the new value of c.inf, which is also returned.
InfoValue(s, i, nowv, st) ==
    CASE s = _running -> [i EXCEPT !.RunT = Sub(nowv, st)]
      [] s = _exited -> [i EXCEPT !.Finished = TRUE]
      [] OTHER -> i

\* Terminate's early return without the c.inf.Finished test.
TerminateSkips_OnlyUninitialized(s, i) == s = _uninitialized

\* Terminate's early return without the c.sta == _uninitialized test.
TerminateSkips_OnlyFinished(s, i) == i.Finished

\* The early return of CmdIo.Terminate.
TerminateSkips(s, i) == s = _uninitialized \/ i.Finished

\* What syscall.Kill(target, SIGTERM) may return. A live group leader takes the
\* signal; a group whose leader has exited or was reaped may still hold
\* descendants (nil) or be gone (ESRCH).
KillReturns(target) ==
    IF target = 0 - cmdPid /\ proc = "alive" THEN {"nil"} ELSE {"nil", "ESRCH"}

\* Start spawning without the sync.Once: every call launches.
StartFirst_NoOnce(c) ==
    /\ ini' = TRUE
    /\ handlers' = handlers + 1
    /\ tpc' = "begin"
    /\ UNCHANGED <<ctl, ech, sch, syn, tnow, terr, tinf, cmdPid, os, clock, res,
                   termAt, lastTerm, kills, log>>
    /\ UNCHANGED reaper

\* CmdIo.Start, the call whose Once runs: spawn signalHandler and runFn.
\* (Callers are interchangeable; the one that gets there first is Launcher.)
StartFirst(c) ==
    /\ ~ini
    /\ c = Launcher
    /\ ini' = TRUE
    /\ handlers' = handlers + 1
    /\ tpc' = "begin"
    /\ UNCHANGED <<ctl, ech, sch, syn, tnow, terr, tinf, cmdPid, os, clock, res,
                   termAt, lastTerm, kills, log>>
    /\ UNCHANGED reaper

\* CmdIo.Start, a later call: the Once does nothing and the caller goes on to
\* send the reuse record.
StartAgain ==
    /\ ini
    /\ UNCHANGED <<ctl, ini, ech, sch, syn, task, os, clock, res, handlers,
                   termAt, lastTerm, kills, log>>
    /\ UNCHANGED reaper

\* CmdIo.Start up to the Once.
Start(c) ==
    /\ pc[c] = "idle"
    /\ \/ StartFirst(c) /\ pc' = pc
       \/ StartAgain /\ pc' = [pc EXCEPT ![c] = "Start_send"]

\* The send of the reuse record in a rejected Start: c.ech <- Info{...}.
StartSend(c) ==
    /\ pc[c] = "Start_send"
    /\ Len(ech) < EchCap
    /\ ech' = Append(ech, ReuseInfo)
    /\ pc' = [pc EXCEPT ![c] = "idle"]
    /\ UNCHANGED <<ctl, ini, sch, syn, task, os, clock, res, ghost>>
    /\ UNCHANGED reaper

\* A receive from the result channel Start returned. CmdIo.Run is Start
\* followed by this receive in the same caller: info := <-complete.
RecvResult(c) ==
    /\ pc[c] = "idle"
    /\ Len(ech) > 0
    /\ res' = IF c = Launcher THEN Head(ech) ELSE res
    /\ ech' = Tail(ech)
    /\ UNCHANGED <<ctl, ini, sch, syn, task, os, clock, pc, ghost>>
    /\ UNCHANGED reaper

\* A receive from the launch-accepted channel.
RecvStarted(c) ==
    /\ pc[c] = "idle"
    /\ Len(sch) > 0
    /\ sch' = Tail(sch)
    /\ UNCHANGED <<ctl, ini, ech, syn, task, os, clock, pc, res, ghost>>
    /\ UNCHANGED reaper

\* A receive from the channel Join returns, which succeeds once it is closed.
Join(c) ==
    /\ pc[c] = "idle"
    /\ syn > 0
    /\ UNCHANGED vars

\* CmdIo.Terminate.
Terminate(c) ==
    /\ pc[c] = "idle"
    /\ termAt' = termAt \cup {<<sta, \E k \in 1..Len(log) : log[k] = "sch_true">>}
    /\ IF TerminateSkips(sta, inf)
       THEN /\ lastTerm' = [sent |-> FALSE, ret |-> "nil"]
            /\ UNCHANGED <<sta, inf, kills, sigPending>>
       ELSE /\ sta' = _signaled
            /\ inf' = [inf EXCEPT !.Signaled = TRUE]
            /\ kills' = kills \cup {0 - inf.Pid}
            /\ sigPending' = (sigPending \/ (inf.Pid = cmdPid /\ proc = "alive"))
            /\ \E r \in KillReturns(0 - inf.Pid) :
                   lastTerm' = [sent |-> TRUE, ret |-> r]
    /\ UNCHANGED <<str, ini, ech, sch, syn, task, proc, ws, clock, pc, res,
                   handlers, log>>
    /\ UNCHANGED reaper

\* CmdIo.Info called by a caller.
Info(c) ==
    /\ pc[c] = "idle"
    /\ inf' = InfoValue(sta, inf, clock, str)
    /\ UNCHANGED <<sta, str, ini, ech, sch, syn, task, os, clock, pc, res, ghost>>
    /\ UNCHANGED reaper

\* ------------------------------------------------------ the wait task (runFn)
\* cmd := c.newCmd(...); now := time.Now()
RunFnBegin ==
    /\ tpc = "begin"
    /\ tnow' = clock
    /\ tpc' = "cmdStart"
    /\ UNCHANGED <<ctl, ini, ech, sch, syn, terr, tinf, cmdPid, os, clock, pc,
                   res, ghost>>
    /\ UNCHANGED reaper

\* cmd.Start() creates the process.
CmdStartOk ==
    /\ tpc = "cmdStart"
    /\ \E p \in Pids : cmdPid' = p
    /\ proc' = "alive"
    /\ tpc' = "init"
    /\ UNCHANGED <<ctl, ini, ech, sch, syn, tnow, terr, tinf, ws, sigPending,
                   clock, pc, res, ghost>>
    /\ UNCHANGED reaper

\* cmd.Start() fails: no process.
CmdStartFails ==
    /\ tpc = "cmdStart"
    /\ terr' = StartErr
    /\ tpc' = "completeStart"
    /\ UNCHANGED <<ctl, ini, ech, sch, syn, tnow, tinf, cmdPid, os, clock, pc,
                   res, ghost>>
    /\ UNCHANGED reaper

\* The failure branch returning right after complete, without c.sch <- false.
RunFnCompleteStart_ReturnsEarly ==
    /\ tpc = "completeStart"
    /\ LET r == complete(sta, inf, tnow, terr, clock)
       IN  sta' = r.sta /\ inf' = r.inf
    /\ log' = Append(log, "endState")
    /\ tpc' = "deferInfo"
    /\ UNCHANGED <<str, ini, ech, sch, syn, tnow, terr, tinf, cmdPid, os, clock,
                   pc, res, handlers, termAt, lastTerm, kills>>
    /\ UNCHANGED reaper

\* c.complete(&now, e) after a failed cmd.Start.
RunFnCompleteStart ==
    /\ tpc = "completeStart"
    /\ LET r == complete(sta, inf, tnow, terr, clock)
       IN  sta' = r.sta /\ inf' = r.inf
    /\ log' = Append(log, "endState")
    /\ tpc' = "schFalse"
    /\ UNCHANGED <<str, ini, ech, sch, syn, tnow, terr, tinf, cmdPid, os, clock,
                   pc, res, handlers, termAt, lastTerm, kills>>
    /\ UNCHANGED reaper

\* The failure branch sending true.
RunFnSchFalse_SendsTrue ==
    /\ tpc = "schFalse"
    /\ Len(sch) < SchCap
    /\ sch' = Append(sch, TRUE)
    /\ log' = Append(log, "sch_true")
    /\ tpc' = "deferInfo"
    /\ UNCHANGED <<ctl, ini, ech, syn, tnow, terr, tinf, cmdPid, os, clock, pc,
                   res, handlers, termAt, lastTerm, kills>>
    /\ UNCHANGED reaper

\* c.sch <- false
RunFnSchFalse ==
    /\ tpc = "schFalse"
    /\ Len(sch) < SchCap
    /\ sch' = Append(sch, FALSE)
    /\ log' = Append(log, "sch_false")
    /\ tpc' = "deferInfo"
    /\ UNCHANGED <<ctl, ini, ech, syn, tnow, terr, tinf, cmdPid, os, clock, pc,
                   res, handlers, termAt, lastTerm, kills>>
    /\ UNCHANGED reaper

\* c.init(&now, cmd)
RunFnInit ==
    /\ tpc = "init"
    /\ LET r == init(inf, tnow, cmdPid)
       IN  sta' = r.sta /\ inf' = r.inf
    /\ log' = Append(log, "init")
    /\ tpc' = "schTrue"
    /\ UNCHANGED <<str, ini, ech, sch, syn, tnow, terr, tinf, cmdPid, os, clock,
                   pc, res, handlers, termAt, lastTerm, kills>>
    /\ UNCHANGED reaper

\* c.sch <- true
RunFnSchTrue ==
    /\ tpc = "schTrue"
    /\ Len(sch) < SchCap
    /\ sch' = Append(sch, TRUE)
    /\ log' = Append(log, "sch_true")
    /\ tpc' = "wait"
    /\ UNCHANGED <<ctl, ini, ech, syn, tnow, terr, tinf, cmdPid, os, clock, pc,
                   res, handlers, termAt, lastTerm, kills>>
    /\ UNCHANGED reaper

\* The error cmd.Wait() returns for a wait status.
WaitErr(w) ==
    IF ~w.signaled /\ w.status = 0 THEN NilErr ELSE ExitError(w)

\* e := cmd.Wait() returns once the process has exited, and reaps it.
CmdWait ==
    /\ tpc = "wait"
    /\ proc = "exited"
    /\ proc' = "reaped"
    /\ terr' = WaitErr(ws)
    /\ tpc' = "completeWait"
    /\ UNCHANGED <<ctl, ini, ech, sch, syn, tnow, tinf, cmdPid, ws, sigPending,
                   clock, pc, res, ghost>>
    /\ UNCHANGED reaper

\* c.complete(&now, e) after cmd.Wait.
RunFnCompleteWait ==
    /\ tpc = "completeWait"
    /\ LET r == complete(sta, inf, tnow, terr, clock)
       IN  sta' = r.sta /\ inf' = r.inf
    /\ log' = Append(log, "endState")
    /\ tpc' = "deferInfo"
    /\ UNCHANGED <<str, ini, ech, sch, syn, tnow, terr, tinf, cmdPid, os, clock,
                   pc, res, handlers, termAt, lastTerm, kills>>
    /\ UNCHANGED reaper

\* The deferred function closing c.syn before it sends the Info.
RunFnDeferInfo_ClosesFirst ==
    /\ tpc = "deferInfo"
    /\ syn' = syn + 1
    /\ log' = Append(log, "close")
    /\ inf' = InfoValue(sta, inf, clock, str)
    /\ tinf' = inf'
    /\ tpc' = "deferSend"
    /\ UNCHANGED <<sta, str, ini, ech, sch, tnow, terr, cmdPid, os, clock, pc,
                   res, handlers, termAt, lastTerm, kills>>
    /\ UNCHANGED reaper

\* The deferred function evaluates c.Info() ...
RunFnDeferInfo ==
    /\ tpc = "deferInfo"
    /\ inf' = InfoValue(sta, inf, clock, str)
    /\ tinf' = inf'
    /\ tpc' = "deferSend"
    /\ UNCHANGED <<sta, str, ini, ech, sch, syn, tnow, terr, cmdPid, os, clock,
                   pc, res, ghost>>
    /\ UNCHANGED reaper

\* ... sends it: c.ech <- c.Info() ...
RunFnDeferSend ==
    /\ tpc = "deferSend"
    /\ Len(ech) < EchCap
    /\ ech' = Append(ech, tinf)
    /\ log' = Append(log, "ech")
    /\ tpc' = "close"
    /\ UNCHANGED <<ctl, ini, sch, syn, tnow, terr, tinf, cmdPid, os, clock, pc,
                   res, handlers, termAt, lastTerm, kills>>
    /\ UNCHANGED reaper

\* ... and closes the Join channel: close(c.syn).
RunFnClose ==
    /\ tpc = "close"
    /\ syn' = syn + 1
    /\ log' = Append(log, "close")
    /\ tpc' = "done"
    /\ UNCHANGED <<ctl, ini, ech, sch, tnow, terr, tinf, cmdPid, os, clock, pc,
                   res, handlers, termAt, lastTerm, kills>>
    /\ UNCHANGED reaper

\* ---------------------------------------------------------- the OS process
\* The process exits on its own with a status. (A pending SIGTERM is acted on
\* first: the process dies from it, or catches it and goes on.)
ProcExit ==
    /\ proc = "alive"
    /\ ~sigPending
    /\ \E s \in ExitStatuses : ws' = [signaled |-> FALSE, sig |-> 0, status |-> s]
    /\ proc' = "exited"
    /\ UNCHANGED <<ctl, ini, ech, sch, syn, task, sigPending, clock, pc, res, ghost>>
    /\ UNCHANGED reaper

\* The process is killed by a signal nobody sent through this CmdIo.
ProcKilled ==
    /\ proc = "alive"
    /\ ~sigPending
    /\ ws' = [signaled |-> TRUE, sig |-> SIGKILL, status |-> 0]
    /\ proc' = "exited"
    /\ UNCHANGED <<ctl, ini, ech, sch, syn, task, sigPending, clock, pc, res, ghost>>
    /\ UNCHANGED reaper

\* The pending SIGTERM kills the process (the default disposition).
ProcSigterm ==
    /\ proc = "alive"
    /\ sigPending
    /\ ws' = [signaled |-> TRUE, sig |-> SIGTERM, status |-> 0]
    /\ proc' = "exited"
    /\ sigPending' = FALSE
    /\ UNCHANGED <<ctl, ini, ech, sch, syn, task, clock, pc, res, ghost>>
    /\ UNCHANGED reaper

\* The process catches or ignores the pending SIGTERM and goes on.
ProcCatches ==
    /\ proc = "alive"
    /\ sigPending
    /\ sigPending' = FALSE
    /\ UNCHANGED <<ctl, ini, ech, sch, syn, task, proc, ws, clock, pc, res, ghost>>
    /\ UNCHANGED reaper

Next ==
    \/ Tick
    \/ \E c \in Callers : Start(c)
    \/ \E c \in Callers : StartSend(c)
    \/ \E c \in Callers : RecvResult(c)
    \/ \E c \in Callers : RecvStarted(c)
    \/ \E c \in Callers : Join(c)
    \/ \E c \in Callers : Terminate(c)
    \/ \E c \in Callers : Info(c)
    \/ RunFnBegin
    \/ CmdStartOk
    \/ CmdStartFails
    \/ RunFnCompleteStart
    \/ RunFnSchFalse
    \/ RunFnInit
    \/ RunFnSchTrue
    \/ CmdWait
    \/ RunFnCompleteWait
    \/ RunFnDeferInfo
    \/ RunFnDeferSend
    \/ RunFnClose
    \/ ProcExit
    \/ ProcKilled
    \/ ProcSigterm
    \/ ProcCatches

Spec == Init /\ [][Next]_vars

\* ------------------------------------------- descendant enumerator (darwin.go)
\* What darwinSyscall may return for process table t: the table as a buffer of
\* Len(t) * kinfoStructSize bytes, or the errno of a failed sysctl.
darwinSyscall(t) ==
    {[buf |-> t, err |-> "nil"], [buf |-> <<>>, err |-> "errno"]}

\* The read loop of children: i is the end offset of the record to read, k its
\* start offset; the bytes [k:i] of the buffer hold record k / kinfoStructSize
\* of the table. (binary.Read gets exactly kinfoStructSize bytes and so does
\* not fail.)
RECURSIVE readProcs(_, _, _, _)
readProcs(buf, k, i, procs) ==
    IF i < Len(buf) * kinfoStructSize
    THEN readProcs(buf, i, i + kinfoStructSize,
                   Append(procs, buf[(k \div kinfoStructSize) + 1]))
    ELSE procs

\* children(ppid), given what darwinSyscall returned.
children(ppid, sys) ==
    IF sys.err # "nil"
    THEN [ppid |-> ppid, pids |-> <<>>, err |-> sys.err]
    ELSE LET procs == readProcs(sys.buf, 0, kinfoStructSize, <<>>)
             isChild(p) == ppid = p.PPid
             found == SelectSeq(procs, isChild)
         IN  [ppid |-> ppid,
              pids |-> [j \in 1..Len(found) |-> found[j].Pid],
              err |-> "nil"]

\* A call of children(p).
ChildrenCall(p) ==
    /\ \E sys \in darwinSyscall(table) : cret' = children(p, sys)
    /\ UNCHANGED <<cmdio, handlers, cini, hpc, table, enum, sigkills>>

InitChildren == New /\ NoReaper /\ table \in Tables

NextChildren == \E p \in ParentIds : ChildrenCall(p)

SpecChildren == InitChildren /\ [][NextChildren]_vars

\* ------------------------------------------------ orphan reaper (darwin.go)
\* CmdIo.Start of Controller k, as far as the reaper is concerned: the first
\* call runs the body of k's sync.Once, which spawns a signalHandler; a later
\* call spawns nothing. (What else Start does is in Start(c) above.)
CtlStart(k) ==
    /\ IF cini[k]
       THEN UNCHANGED <<cini, hpc, handlers>>
       ELSE /\ cini' = [cini EXCEPT ![k] = TRUE]
            /\ hpc' = [hpc EXCEPT ![k] = "spawned"]
            /\ handlers' = handlers + 1
    /\ UNCHANGED <<cmdio, table, enum, sigkills, cret>>

\* signalHandler: c := make(chan os.Signal); signal.Notify(c, ...).
SignalNotify(k) ==
    /\ hpc[k] = "spawned"
    /\ hpc' = [hpc EXCEPT ![k] = "installed"]
    /\ UNCHANGED <<cmdio, handlers, cini, table, enum, sigkills, cret>>

\* signalHandler reaches <-c and waits there.
SignalWait(k) ==
    /\ hpc[k] = "installed"
    /\ hpc' = [hpc EXCEPT ![k] = "waiting"]
    /\ UNCHANGED <<cmdio, handlers, cini, table, enum, sigkills, cret>>

\* The handlers whose signal.Notify has run.
Installed == {k \in Controllers : hpc[k] \notin {"none", "spawned"}}

\* An interrupt arrives at the controlling process: the runtime offers it to
\* every installed channel without blocking, so the handlers waiting in <-c
\* receive it. (With no handler installed the process dies of it.)
Interrupt ==
    /\ Installed # {}
    /\ hpc' = [k \in Controllers |->
                 IF hpc[k] = "waiting" THEN "received" ELSE hpc[k]]
    /\ UNCHANGED <<cmdio, handlers, cini, table, enum, sigkills, cret>>

\* killChildren: ch, e := children(os.Getpid()).
KillChildrenEnumerate(k) ==
    /\ hpc[k] = "received"
    /\ \E sys \in darwinSyscall(table) :
           enum' = [enum EXCEPT ![k] = children(Self, sys)]
    /\ hpc' = [hpc EXCEPT ![k] = "enumerated"]
    /\ UNCHANGED <<cmdio, handlers, cini, table, sigkills, cret>>

\* The kill(2) calls of killChildren's loop for result r of children.
killed(r) ==
    IF r.err = "nil"
    THEN {<<r.pids[j], SIGKILL>> : j \in 1..Len(r.pids)}
    ELSE {}

\* killChildren signalling every process of the table.
KillChildrenLoop_WholeTable(k) ==
    /\ hpc[k] = "enumerated"
    /\ sigkills' = [sigkills EXCEPT
                      ![k] = {<<table[j].Pid, SIGKILL>> : j \in 1..Len(table)}]
    /\ hpc' = [hpc EXCEPT ![k] = "done"]
    /\ UNCHANGED <<cmdio, handlers, cini, table, enum, cret>>

\* killChildren: if e == nil, syscall.Kill(pid, SIGKILL) for each pid of ch;
\* then signalHandler returns.
KillChildrenLoop(k) ==
    /\ hpc[k] = "enumerated"
    /\ sigkills' = [sigkills EXCEPT ![k] = @ \cup killed(enum[k])]
    /\ hpc' = [hpc EXCEPT ![k] = "done"]
    /\ UNCHANGED <<cmdio, handlers, cini, table, enum, cret>>

InitReaper == New /\ NoReaper /\ table \in Tables

NextReaper ==
    \/ \E k \in Controllers : CtlStart(k)
    \/ \E k \in Controllers : SignalNotify(k)
    \/ \E k \in Controllers : SignalWait(k)
    \/ Interrupt
    \/ \E k \in Controllers : KillChildrenEnumerate(k)
    \/ \E k \in Controllers : KillChildrenLoop(k)

SpecReaper == InitReaper /\ [][NextReaper]_vars

\* ------------------------------------------------------------- observations
\* The wait task has done step e.
Logged(e) == \E k \in 1..Len(log) : log[k] = e

\* The wait task has sent the run's final Info (tinf) on the result channel.
Published == Logged("ech")

\* Every Info value there is: the record, its copies in flight and received.
AllInfos == {inf, tinf, res} \cup {ech[k] : k \in 1..Len(ech)}

\* The process was created, exited on its own with status 0 and was waited for.
ExitedZero == proc = "reaped" /\ ~ws.signaled /\ ws.status = 0

\* Terminate was called while the state was s.
TerminatedAt(s) == \E b \in BOOLEAN : <<s, b>> \in termAt

\* Terminate was called in state running after true was sent on sch.
TerminatedRunning == <<_running, TRUE>> \in termAt

\* The exit code a wait status stands for.
WsCode(w) == IF w.signaled THEN w.sig ELSE w.status

\* ------------------------------------------------------------------- claims

\* C1 (as claimed): no Start call blocks its caller; a rejected call's send of
\* the reuse record always finds room in the result channel.
C1_StartNeverBlocks ==
    \A c \in Callers : pc[c] = "Start_send" => Len(ech) < EchCap

\* C2 (as claimed): rejected Start calls do not affect the original run; the
\* launching caller's read of its result handle never returns a reuse record,
\* and the wait task's send of the final Info is never held up by one.
C2_FirstRunUnaffected ==
    /\ res.Error # ErrReuse
    /\ tpc = "deferSend" => ReuseInfo \notin {ech[k] : k \in 1..Len(ech)}

\* C3 (as claimed): when Terminate was called in state running, the Info the
\* wait task delivers has Error != nil, Signaled, not Finished and Exit = 15.
C3_TerminatedExitIsSigterm ==
    (Published /\ TerminatedRunning) =>
        /\ tinf.Error # NilErr
        /\ tinf.Signaled
        /\ ~tinf.Finished
        /\ tinf.Exit = SIGTERM

\* C3 (amended): when Terminate was called in state running, the Info the wait
\* task delivers has Signaled and not Finished, and its Error and Exit report
\* how the process ended: Error != nil and Exit = 15 when it died from the
\* SIGTERM, the process's own status (Error = nil and Exit = 0 for status 0) or
\* other signal when it had ended before the SIGTERM took effect.
C3_TerminatedInfo ==
    (Published /\ TerminatedAt(_running)) =>
        /\ tinf.Signaled
        /\ ~tinf.Finished
        /\ tinf.Error = WaitErr(ws)
        /\ tinf.Exit = WsCode(ws)
        /\ (ws.signaled /\ ws.sig = SIGTERM) =>
               (tinf.Error # NilErr /\ tinf.Exit = SIGTERM)

\* C3 witness: Terminate hit a running process, which died from the SIGTERM,
\* and the launching caller received the run's Info.
C3_Witness ==
    /\ Published
    /\ TerminatedRunning
    /\ ws.signaled /\ ws.sig = SIGTERM
    /\ res = tinf
    /\ res.Exit = SIGTERM

\* C4: no Info value ever has Finished and Signaled both true, and once the
\* record is Signaled it stays Signaled and is never Finished.
C4_FinishedXorSignaled ==
    /\ [](\A i \in AllInfos : ~(i.Finished /\ i.Signaled))
    /\ [][inf.Signaled => (inf'.Signaled /\ ~inf'.Finished)]_vars

\* C4 witness: a terminated run after the wait task saw the exit and sent the
\* Info, the record still Signaled and not Finished.
C4_Witness ==
    /\ inf.Signaled
    /\ ~inf.Finished
    /\ proc = "reaped"
    /\ tpc = "done"

\* C5: the lifecycle state only moves uninitialized -> running,
\* uninitialized -> exited, running -> exited, running -> signaled; exited and
\* signaled are never left.
C5_Transitions ==
    [][sta' # sta =>
          <<sta, sta'>> \in {<<_uninitialized, _running>>,
                             <<_uninitialized, _exited>>,
                             <<_running, _exited>>,
                             <<_running, _signaled>>}]_vars

\* C5 witness: the state is signaled, reached from running, after a Terminate
\* call in state signaled and the wait task's end state.
C5_Witness ==
    /\ sta = _signaled
    /\ TerminatedAt(_running)
    /\ TerminatedAt(_signaled)
    /\ Logged("endState")

\* C6: for a run whose process was created, exited on its own with status 0
\* and was never signalled by Terminate, the Info the wait task delivers, and
\* the one the launching caller receives as that run's result (Run's return
\* value), has Error = nil, Finished, not Signaled and Exit = 0.
C6_SuccessfulRun ==
    (Published /\ ExitedZero /\ kills = {}) =>
        /\ tinf.Error = NilErr
        /\ tinf.Finished
        /\ ~tinf.Signaled
        /\ tinf.Exit = 0
        /\ res \notin {NoInfo, ReuseInfo} => res = tinf

\* C6 witness: such a run, whose Info the launching caller has received.
C6_Witness ==
    /\ Published
    /\ ExitedZero
    /\ kills = {}
    /\ res = tinf
    /\ res.Exit = 0

\* C7: the wait task sends the final Info on the result channel only after it
\* has sent on the launch-accepted channel: true when the process was created,
\* false when its creation failed.
C7_AcceptedBeforeResult ==
    /\ \A k \in 1..Len(log) :
           log[k] = "ech" =>
               \E j \in 1..(k - 1) : log[j] \in {"sch_true", "sch_false"}
    /\ Logged("sch_true") => (proc # "none" /\ terr # StartErr)
    /\ Logged("sch_false") => (proc = "none" /\ terr = StartErr)

\* C7 witness: a successful start whose final Info was sent while true was
\* still buffered on the launch-accepted channel.
C7_Witness ==
    /\ Published
    /\ Logged("sch_true")
    /\ sch = <<TRUE>>

\* C8: the Join channel is closed at most once, and only after the wait task
\* recorded the end state and sent the final Info; it is never closed while the
\* process is still running.
C8_JoinAfterResult ==
    /\ syn <= 1
    /\ Logged("close") <=> syn = 1
    /\ syn > 0 =>
           /\ Logged("endState")
           /\ proc \notin {"alive", "exited"}
           /\ sta \in {_exited, _signaled}
           /\ \E k \in 1..Len(log) :
                  log[k] = "close" /\ \E j \in 1..(k - 1) : log[j] = "ech"

\* C8 witness: Join is closed after a run whose process exited.
C8_Witness ==
    /\ syn = 1
    /\ proc = "reaped"
    /\ Published

\* C9: a Terminate call made while the state is uninitialized or exited sends
\* no signal, returns nil and leaves the state and the Info record unchanged.
C9_TerminateNoop ==
    [][\A c \in Callers :
          (Terminate(c) /\ sta \in {_uninitialized, _exited}) =>
              /\ UNCHANGED <<sta, inf, kills, sigPending>>
              /\ ~lastTerm'.sent
              /\ lastTerm'.ret = "nil"]_vars

\* C9 witness: Terminate was called before the launch and after the process
\* had finished on its own; no signal was ever sent and the last call
\* returned nil.
C9_Witness ==
    /\ TerminatedAt(_uninitialized)
    /\ TerminatedAt(_exited)
    /\ proc = "reaped"
    /\ sta = _exited
    /\ inf.Finished
    /\ kills = {}
    /\ lastTerm = [sent |-> FALSE, ret |-> "nil"]

\* a is an initial part of b.
IsPrefix(a, b) ==
    /\ Len(a) <= Len(b)
    /\ \A k \in 1..Len(a) : a[k] = b[k]

\* C10: when process creation fails the state goes from uninitialized to
\* exited and is never running; the wait task records the end state, sends
\* false on the launch-accepted channel, then sends an Info with Error != nil,
\* Finished, not Signaled and Pid = 0 on the result channel, then closes Join.
C10_LaunchFailure ==
    terr = StartErr =>
        /\ proc = "none"
        /\ IsPrefix(log, <<"endState", "sch_false", "ech", "close">>)
        /\ sta = IF Logged("endState") THEN _exited ELSE _uninitialized
        /\ Published =>
               /\ tinf.Error # NilErr
               /\ tinf.Finished
               /\ ~tinf.Signaled
               /\ tinf.Pid = 0
               /\ tinf.Exit = 0
        /\ Logged("close") => syn = 1

\* C10 witness: a failed launch whose wait task has finished, Terminate having
\* been called on the way.
C10_Witness ==
    /\ terr = StartErr
    /\ tpc = "done"
    /\ syn = 1
    /\ res = tinf
    /\ termAt # {}

\* C11: of all the Start calls made on the CmdIo exactly one, the first,
\* spawns the wait task, and the OS process is created at most once; every
\* other call is turned away to send the reuse record.
C11_ExactlyOneLaunch ==
    /\ [](/\ handlers <= 1
          /\ ini <=> handlers = 1
          /\ ini <=> tpc # "idle")
    /\ [][\A c \in Callers :
             Start(c) =>
                 IF ini
                 THEN pc'[c] = "Start_send" /\ UNCHANGED <<tpc, proc, handlers>>
                 ELSE pc'[c] = "idle" /\ tpc' = "begin" /\ handlers' = 1]_vars
    /\ [][(proc' = "alive" /\ proc # "alive") => proc = "none"]_vars

\* C11 witness: the one launch has created its process while one later Start
\* has delivered its reuse record and another is on its way to.
C11_Witness ==
    /\ handlers = 1
    /\ proc # "none"
    /\ ech = <<ReuseInfo>>
    /\ \E c \in Callers : pc[c] = "Start_send"

\* C13: a caller that is not parked in another call can always carry out
\* Info(), whatever the lifecycle state and wherever the wait task stands, and
\* an Info() call made in state running never reports a smaller RunT than the
\* one reported before.
C13_InfoNeverWaitsMonotone ==
    /\ [](\A c \in Callers : pc[c] = "idle" => ENABLED Info(c))
    /\ [][\A c \in Callers :
             (Info(c) /\ sta = _running) => inf'.RunT >= inf.RunT]_vars

\* C13 witness: Info() has reported a RunT in state running, the process not
\* yet waited for, and the clock has moved on since the start.
C13_Witness ==
    /\ sta = _running
    /\ inf.RunT > 0
    /\ tpc = "wait"
    /\ clock > tnow

\* C14 (as claimed): an Info() call in state running returns RunT = now minus
\* the start time recorded for the process (the instant stored in StartT).
C14_RunTIsNowMinusStart ==
    [][\A c \in Callers :
          (Info(c) /\ sta = _running) =>
              UnixNano(tnow) = inf.StartT /\ inf'.RunT = clock - tnow]_vars

\* C16 (as claimed): once the wait task has recorded the end state, a
\* Terminate call sends no signal and returns nil, whether the state ended up
\* exited or signaled.
C16_NoSignalAfterEnd ==
    [][\A c \in Callers :
          (Terminate(c) /\ Logged("endState")) =>
              /\ ~lastTerm'.sent
              /\ lastTerm'.ret = "nil"
              /\ kills' = kills]_vars

\* The exit code the decoding policy gives for a start/wait error.
DecodedExit(err) ==
    CASE err = NilErr -> 0
      [] err.kind = "ExitError" /\ err.ws.signaled -> err.ws.sig
      [] err.kind = "ExitError" /\ ~err.ws.signaled -> err.ws.status
      [] OTHER -> 0

\* C17: the exit code the wait task records is 0 for no error, the signal
\* number for an exit error of a process killed by a signal, the status for an
\* exit error with a non-zero status, and 0 for any other error, the error
\* itself being kept in Error.
C17_ExitDecoding ==
    Logged("endState") =>
        /\ inf.Error = terr
        /\ inf.Exit = DecodedExit(terr)
        /\ terr.kind \in {"start", "ExitError"} => inf.Error # NilErr

\* C17 witness: the wait task has recorded the end of a process killed by a
\* signal other than Terminate's.
C17_Witness ==
    /\ Logged("endState")
    /\ terr.kind = "ExitError"
    /\ terr.ws.signaled
    /\ inf.Exit = SIGKILL

\* C19: every SIGTERM Terminate sends goes to minus the pid of the process
\* this CmdIo launched, which is not 0; it is never sent to target 0, the
\* controlling process's own group, nor before the process exists.
C19_SignalTargetIsChild ==
    /\ 0 \notin kills
    /\ kills # {} =>
           /\ cmdPid \in Pids
           /\ cmdPid # 0
           /\ proc # "none"
           /\ inf.Pid = cmdPid
           /\ kills = {0 - cmdPid}
    /\ lastTerm.sent => kills # {}

\* C19 witness: Terminate was called before the launch took effect, which
\* sent nothing, and again in state running, which signalled the child.
C19_Witness ==
    /\ TerminatedAt(_uninitialized)
    /\ TerminatedAt(_running)
    /\ lastTerm.sent
    /\ kills = {0 - cmdPid}

\* C20: the Info the wait task publishes is taken after the end state was
\* recorded: it has Exit # -1, EndT >= StartT and exactly one of Finished and
\* Signaled, and the state is then exited or signaled; before the end state is
\* recorded Exit is -1.
C20_PublishedAfterEnd ==
    /\ ~Logged("endState") => inf.Exit = 0 - 1
    /\ tpc \in {"deferSend", "close", "done"} =>
           /\ Logged("endState")
           /\ sta \in {_exited, _signaled}
           /\ tinf.Exit # 0 - 1
           /\ tinf.EndT >= tinf.StartT
           /\ tinf.Finished # tinf.Signaled
    /\ \A k \in 1..Len(ech) : ech[k] # ReuseInfo => ech[k] = tinf
    /\ Published => tpc \in {"close", "done"}

\* C20 witness: the wait task has published the Info of a terminated run, which
\* ended later than it started and is still in the result channel.
C20_Witness ==
    /\ Published
    /\ ech = <<tinf>>
    /\ tinf.Signaled
    /\ tinf.EndT > tinf.StartT

\* The pids of the records of table t whose parent id is p, in table order.
ChildrenOf(t, p) ==
    LET isChild(r) == r.PPid = p
        found == SelectSeq(t, isChild)
    IN  [j \in 1..Len(found) |-> found[j].Pid]

\* C12: however many Controllers are created and started in the process, at
\* most one signal handler (Orphan Reaper) is ever installed.
C12_AtMostOneHandler == Cardinality(Installed) <= 1

\* C15: for every process table and every parent id p, a call of children(p)
\* whose query succeeds returns exactly the pids of all the records whose
\* parent id is p, wherever they are in the table.
C15_ChildrenExact ==
    cret.err = "nil" => cret.pids = ChildrenOf(table, cret.ppid)

\* C18: a reaper that received the notification enumerates the children of
\* the controlling process; it sends SIGKILL to every pid the enumerator
\* returned and nothing else; when the query fails the enumerator returns an
\* error, and the reaper sends nothing and ends like one that succeeded,
\* leaving every Controller as it was.
C18_ReaperKillsEnumerated ==
    /\ [](\A k \in Controllers :
            /\ hpc[k] \in {"enumerated", "done"} =>
                   /\ enum[k] \in {children(Self, sys) : sys \in darwinSyscall(table)}
                   /\ enum[k].err = "nil" \/ enum[k].pids = <<>>
            /\ hpc[k] = "done" =>
                   sigkills[k] = IF enum[k].err = "nil"
                                 THEN {<<enum[k].pids[j], SIGKILL>> : j \in 1..Len(enum[k].pids)}
                                 ELSE {}
            /\ hpc[k] # "done" => sigkills[k] = {})
    /\ [][\A k \in Controllers :
            /\ KillChildrenEnumerate(k) =>
                   \/ enum'[k].err = "nil"
                   \/ enum'[k].err = "errno" /\ enum'[k].pids = <<>>
            /\ KillChildrenLoop(k) =>
                   hpc'[k] = "done" /\ UNCHANGED <<cmdio, cini, enum>>]_vars

\* C18 witness: one reaper has killed the two children the enumerator
\* returned, another one's query failed and it ended without a signal.
C18_Witness ==
    \E k, l \in Controllers :
        /\ hpc[k] = "done" /\ Cardinality(sigkills[k]) = 2
        /\ hpc[l] = "done" /\ enum[l].err = "errno" /\ sigkills[l] = {}

====
